---- MODULE Spec2Model ----
(***************************************************************************)
(* Model of AnnoyATTiny85.ino: the tap-driven configuration stage          *)
(* (readConfiguration), setup(), the watchdog interrupt and the main loop  *)
(* with its decay policy and randomized trigger threshold.                 *)
(*                                                                         *)
(* int is 16 bits and long is 32 bits on the AVR targets of the sketch.    *)
(***************************************************************************)
EXTENDS Integers, Naturals, Sequences, FiniteSets, TLC

(***************************************************************************)
(* Bounds of the model.                                                    *)
(***************************************************************************)
\* taps the operator may give in one counting stage, configuration checks
MaxTaps == 256
\* taps the operator may give in one counting stage when the main loop runs
MaxRunTaps == 1
\* the watchdog timer stops firing once watchdog_counter reaches this value
MaxWatchdogCounter == 7
\* while loop is awake the timer fires only as long as watchdog_counter is less
\* than this many ticks past counter_trigger
MaxLateTicks == 1
\* the watchdog timer of a run followed up to its first episode stops firing
\* once watchdog_counter reaches this value
MaxFirstCounter == 11040
\* taps the operator may give in the CountOtherDevices stage of such a run
MaxFirstTaps == 3
\* taps the operator may give in one counting stage when the release of the
\* pin is followed
MaxHeldTaps == 4

(***************************************************************************)
(* Program constants.                                                      *)
(***************************************************************************)
PROD_MIN_COUNTER_TRIGGER == 37
PROD_MAX_COUNTER_TRIGGER == 60
TEST_MIN_COUNTER_TRIGGER == 2
TEST_MAX_COUNTER_TRIGGER == 4
PROD_WATCHDOG_PARAM == 9
TEST_WATCHDOG_PARAM == 7
DAY == 10800
PROD_INITIAL_COUNTER_TRIGGER == 1 * DAY
TEST_INITIAL_COUNTER_TRIGGER == 3

VARIABLES
    pc,                       \* position of the main program
    active,                   \* readConfiguration: boolean active
    count,                    \* readActivationPinByte: int count
    days,                     \* readConfiguration: int const days
    testMode,                 \* readConfiguration: boolean const testMode
    dayTaps,                  \* taps the operator gave in the CountDays stage
    deviceTaps,               \* taps the operator gave in the CountOtherDevices stage
    device_count,
    MIN_COUNTER_TRIGGER,
    MAX_COUNTER_TRIGGER,
    INITIAL_COUNTER_TRIGGER,
    WATCHDOG_PARAM,
    counter_trigger,
    watchdog_counter,
    day_counter,
    started,
    x,                        \* annoy3: the loop variable int x
    piezo                     \* tones loop itself played since the last wake (annoy's
                              \* own tones are the states in which pc is in annoy)

cfgVars == <<active, count, days, testMode, dayTaps, deviceTaps>>
constVars == <<MIN_COUNTER_TRIGGER, MAX_COUNTER_TRIGGER, INITIAL_COUNTER_TRIGGER,
               WATCHDOG_PARAM>>
runVars == <<counter_trigger, watchdog_counter, day_counter, started>>
playVars == <<x, piezo>>
vars == <<pc, cfgVars, device_count, constVars, runVars, playVars>>

(***************************************************************************)
(* Arithmetic of the target.                                               *)
(***************************************************************************)
\* a value stored in a 16-bit int
Int16(v) ==
    LET m == v % 65536 IN IF m >= 32768 THEN m - 65536 ELSE m

\* a value returned through the byte return type
ToByte(v) == v % 256

\* byte i (0 = least significant) of a non-negative 32-bit value
ByteOf(v, i) == (v \div (256 ^ i)) % 256

\* the 32-bit value whose bytes in S are those of a and whose other bytes are
\* those of b
MixBytes(a, b, S) ==
    LET pick(i) == IF i \in S THEN ByteOf(a, i) ELSE ByteOf(b, i)
    IN  pick(0) + 256 * pick(1) + 65536 * pick(2) + 16777216 * pick(3)

\* the bytes of a four-byte access already done when an interrupt arrives in
\* the middle of it: the access goes through the bytes in ascending or in
\* descending order, as the compiler chose
TornSplits == {0 .. (j - 1) : j \in 1 .. 3} \cup {j .. 3 : j \in 1 .. 3}

\* what the main program can read from watchdog_counter = v when the
\* interrupt handler increments it in the middle of the four byte loads
\* (only the low byte differs between v and v + 1 unless it is 255)
TornReads(v) ==
    IF v % 256 # 255 THEN {v, v + 1} ELSE {MixBytes(v, v + 1, S) : S \in TornSplits}

\* what watchdog_counter = v can hold after watchdog_counter = 0 when the
\* interrupt handler increments it in the middle of the four byte stores
\* (the increment carries out of the low byte only when that byte is 255)
TornResets(v) ==
    IF v % 256 # 255 THEN {0, 1}
    ELSE {MixBytes(MixBytes(0, v, S) + 1, 0, S) : S \in TornSplits}

\* period in milliseconds of watchdog timeout code ii
WatchdogPeriodMs(ii) ==
    CASE ii = 0 -> 16
      [] ii = 1 -> 32
      [] ii = 2 -> 64
      [] ii = 3 -> 128
      [] ii = 4 -> 250
      [] ii = 5 -> 500
      [] ii = 6 -> 1000
      [] ii = 7 -> 2000
      [] ii = 8 -> 4000
      [] OTHER -> 8000

\* (mutant) the span is added to lo without subtracting lo from hi first
RandomRange_SpanFromZero(lo, hi) == IF hi <= 0 THEN {lo} ELSE lo .. (lo + hi - 1)

\* the values random(lo, hi) can return: lo when the range is empty, else lo..hi-1
RandomRange(lo, hi) == IF lo >= hi THEN {lo} ELSE lo .. (hi - 1)

\* (mutant) the bound is scaled back by n instead of n - 1
DecayBound_NoShrink(b, n) == Int16(Int16(b \div n) * n)

\* one bound after a decay step with n devices
DecayBound(b, n) == Int16(Int16(b \div n) * (n - 1))

\* (mutant) the decay step is also taken with one device left
DecayGuard_AtOne(n) == n >= 1

\* the decay step is taken only when more than one device is left
DecayGuard(n) == n > 1

(***************************************************************************)
(* Initial state: power on, globals as initialised in the sketch.          *)
(***************************************************************************)
Init ==
    /\ pc = "AwaitActivation"
    /\ active = FALSE
    /\ count = 0
    /\ days = 0
    /\ testMode = FALSE
    /\ dayTaps = 0
    /\ deviceTaps = 0
    /\ device_count = 1
    /\ MIN_COUNTER_TRIGGER = PROD_MIN_COUNTER_TRIGGER
    /\ MAX_COUNTER_TRIGGER = PROD_MAX_COUNTER_TRIGGER
    /\ INITIAL_COUNTER_TRIGGER = PROD_INITIAL_COUNTER_TRIGGER
    /\ WATCHDOG_PARAM = PROD_WATCHDOG_PARAM
    /\ counter_trigger = 0
    /\ watchdog_counter = 0
    /\ day_counter = 0
    /\ started = FALSE
    /\ x = 0
    /\ piezo = {}

(***************************************************************************)
(* readConfiguration                                                       *)
(***************************************************************************)
\* a tap inside the 5 s activation window
ActivationTap ==
    /\ pc = "AwaitActivation"
    /\ active' = TRUE
    /\ count' = 0
    /\ pc' = "CountDays"
    /\ UNCHANGED <<days, testMode, dayTaps, deviceTaps, device_count, constVars, runVars, playVars>>

\* (mutant) super annoying mode keeps the production wake period
ActivationTimeout_KeepsWatchdog ==
    /\ pc = "AwaitActivation"
    /\ active' = FALSE
    /\ INITIAL_COUNTER_TRIGGER' = 0
    /\ MIN_COUNTER_TRIGGER' = 0
    /\ MAX_COUNTER_TRIGGER' = 0
    /\ pc' = "ConfigDone"
    /\ UNCHANGED <<count, days, testMode, dayTaps, deviceTaps, device_count,
                   WATCHDOG_PARAM, runVars, playVars>>

\* (mutant) super annoying mode keeps the initial delay
ActivationTimeout_KeepsInitial ==
    /\ pc = "AwaitActivation"
    /\ active' = FALSE
    /\ MIN_COUNTER_TRIGGER' = 0
    /\ MAX_COUNTER_TRIGGER' = 0
    /\ WATCHDOG_PARAM' = TEST_WATCHDOG_PARAM
    /\ pc' = "ConfigDone"
    /\ UNCHANGED <<count, days, testMode, dayTaps, deviceTaps, device_count,
                   INITIAL_COUNTER_TRIGGER, runVars, playVars>>

\* (mutant) without an activation tap the day count is still read
ActivationTimeout_ReadsOn ==
    /\ pc = "AwaitActivation"
    /\ active' = FALSE
    /\ INITIAL_COUNTER_TRIGGER' = 0
    /\ MIN_COUNTER_TRIGGER' = 0
    /\ MAX_COUNTER_TRIGGER' = 0
    /\ WATCHDOG_PARAM' = TEST_WATCHDOG_PARAM
    /\ pc' = "CountDays"
    /\ UNCHANGED <<count, days, testMode, dayTaps, deviceTaps, device_count, runVars, playVars>>

\* the activation window ends with no tap: super annoying mode
ActivationTimeout ==
    /\ pc = "AwaitActivation"
    /\ active' = FALSE
    /\ INITIAL_COUNTER_TRIGGER' = 0
    /\ MIN_COUNTER_TRIGGER' = 0
    /\ MAX_COUNTER_TRIGGER' = 0
    /\ WATCHDOG_PARAM' = TEST_WATCHDOG_PARAM
    /\ pc' = "ConfigDone"
    /\ UNCHANGED <<count, days, testMode, dayTaps, deviceTaps, device_count, runVars, playVars>>

\* readActivationPinByte, CountDays stage: one more tap inside the window
DaysTap(limit) ==
    /\ pc = "CountDays"
    /\ dayTaps < limit
    /\ dayTaps' = dayTaps + 1
    /\ count' = Int16(count + 1)
    /\ UNCHANGED <<pc, active, days, testMode, deviceTaps, device_count, constVars, runVars, playVars>>

\* readActivationPinByte returns: a full window without a tap
DaysTimeout ==
    /\ pc = "CountDays"
    /\ days' = ToByte(count)
    /\ pc' = "ConfirmDays"
    /\ UNCHANGED <<active, count, testMode, dayTaps, deviceTaps, device_count,
                   constVars, runVars, playVars>>

\* the confirmation beeps for days, then the second count starts
ConfirmDays ==
    /\ pc = "ConfirmDays"
    /\ count' = 0
    /\ pc' = "CountOtherDevices"
    /\ UNCHANGED <<active, days, testMode, dayTaps, deviceTaps, device_count,
                   constVars, runVars, playVars>>

DevicesTap(limit) ==
    /\ pc = "CountOtherDevices"
    /\ deviceTaps < limit
    /\ deviceTaps' = deviceTaps + 1
    /\ count' = Int16(count + 1)
    /\ UNCHANGED <<pc, active, days, testMode, dayTaps, device_count, constVars, runVars, playVars>>

DevicesTimeout ==
    /\ pc = "CountOtherDevices"
    /\ device_count' = Int16(ToByte(count) + 1)
    /\ pc' = "TestModeQuery"
    /\ UNCHANGED <<cfgVars, constVars, runVars, playVars>>

\* readActivationPinByte, CountDays stage, pin level followed: the pin is read
\* HIGH inside the window, the tone is played and the wait for the release
\* (while (digitalRead(activationPin) == HIGH) { delay(10); }) begins
DaysTapHeld(limit) ==
    /\ pc = "CountDays"
    /\ dayTaps < limit
    /\ dayTaps' = dayTaps + 1
    /\ pc' = "DaysHeld"
    /\ UNCHANGED <<active, count, days, testMode, deviceTaps, device_count, constVars,
                   runVars, playVars>>

\* the pin is read LOW: the wait for the release ends and the tap is counted
DaysReleased ==
    /\ pc = "DaysHeld"
    /\ count' = Int16(count + 1)
    /\ pc' = "CountDays"
    /\ UNCHANGED <<active, days, testMode, dayTaps, deviceTaps, device_count, constVars,
                   runVars, playVars>>

DevicesTapHeld(limit) ==
    /\ pc = "CountOtherDevices"
    /\ deviceTaps < limit
    /\ deviceTaps' = deviceTaps + 1
    /\ pc' = "DevicesHeld"
    /\ UNCHANGED <<active, count, days, testMode, dayTaps, device_count, constVars,
                   runVars, playVars>>

DevicesReleased ==
    /\ pc = "DevicesHeld"
    /\ count' = Int16(count + 1)
    /\ pc' = "CountOtherDevices"
    /\ UNCHANGED <<active, days, testMode, dayTaps, deviceTaps, device_count, constVars,
                   runVars, playVars>>

\* (mutant) the test-mode tap leaves the wake period at its production value
TestModeTap_KeepsWatchdog ==
    /\ pc = "TestModeQuery"
    /\ testMode' = TRUE
    /\ MIN_COUNTER_TRIGGER' = TEST_MIN_COUNTER_TRIGGER
    /\ MAX_COUNTER_TRIGGER' = TEST_MAX_COUNTER_TRIGGER
    /\ INITIAL_COUNTER_TRIGGER' = TEST_INITIAL_COUNTER_TRIGGER
    /\ pc' = "PostProcess"
    /\ UNCHANGED <<active, count, days, dayTaps, deviceTaps, device_count,
                   WATCHDOG_PARAM, runVars, playVars>>

\* a tap inside the 1 s test-mode window
TestModeTap ==
    /\ pc = "TestModeQuery"
    /\ testMode' = TRUE
    /\ MIN_COUNTER_TRIGGER' = TEST_MIN_COUNTER_TRIGGER
    /\ MAX_COUNTER_TRIGGER' = TEST_MAX_COUNTER_TRIGGER
    /\ INITIAL_COUNTER_TRIGGER' = TEST_INITIAL_COUNTER_TRIGGER
    /\ WATCHDOG_PARAM' = TEST_WATCHDOG_PARAM
    /\ pc' = "PostProcess"
    /\ UNCHANGED <<active, count, days, dayTaps, deviceTaps, device_count, runVars, playVars>>

TestModeTimeout ==
    /\ pc = "TestModeQuery"
    /\ testMode' = FALSE
    /\ pc' = "PostProcess"
    /\ UNCHANGED <<active, count, days, dayTaps, deviceTaps, device_count,
                   constVars, runVars, playVars>>

PostProcess ==
    /\ pc = "PostProcess"
    /\ MIN_COUNTER_TRIGGER' = Int16(MIN_COUNTER_TRIGGER * device_count)
    /\ MAX_COUNTER_TRIGGER' = Int16(MAX_COUNTER_TRIGGER * device_count)
    /\ INITIAL_COUNTER_TRIGGER' = INITIAL_COUNTER_TRIGGER + DAY * days
    /\ pc' = "ConfigDone"
    /\ UNCHANGED <<cfgVars, device_count, WATCHDOG_PARAM, runVars, playVars>>

(***************************************************************************)
(* setup, after readConfiguration has returned                             *)
(***************************************************************************)
\* newTriggerCounter
SetupNewTrigger ==
    /\ pc = "ConfigDone"
    /\ counter_trigger' \in RandomRange(MIN_COUNTER_TRIGGER, MAX_COUNTER_TRIGGER)
    /\ pc' = "SetupAddInitial"
    /\ UNCHANGED <<cfgVars, device_count, constVars, watchdog_counter, day_counter, started,
                   playVars>>

\* counter_trigger += INITIAL_COUNTER_TRIGGER; setup_watchdog(WATCHDOG_PARAM)
SetupWatchdog ==
    /\ pc = "SetupAddInitial"
    /\ counter_trigger' = counter_trigger + INITIAL_COUNTER_TRIGGER
    /\ pc' = "sleep"
    /\ UNCHANGED <<cfgVars, device_count, constVars, watchdog_counter, day_counter, started,
                   playVars>>

(***************************************************************************)
(* The watchdog interrupt and loop                                         *)
(***************************************************************************)
LoopPcs == {"sleep", "awake", "fire", "annoy", "annoy3_forward", "annoy3_reverse"}

\* the watchdog timer is enabled and within the bounds of the model
TimerMayFire ==
    /\ pc \in LoopPcs
    /\ watchdog_counter < MaxWatchdogCounter
    /\ pc # "sleep" => watchdog_counter < counter_trigger + MaxLateTicks

\* the watchdog timer is enabled; the run is followed up to the end of the
\* first episode, after which the sleeping processor is not woken again
TimerUntilStarted ==
    /\ pc \in LoopPcs
    /\ pc = "sleep" => ~started
    /\ watchdog_counter < MaxFirstCounter
    /\ pc # "sleep" => watchdog_counter < counter_trigger + MaxLateTicks

\* (mutant) the handler wakes the processor without counting the tick
ISR_NoCount(mayFire) ==
    /\ mayFire
    /\ pc' = IF pc = "sleep" THEN "awake" ELSE pc
    /\ UNCHANGED <<cfgVars, device_count, constVars, runVars, playVars>>

\* ISR(WDT_vect): may run between any two steps of loop; wakes the processor
ISR(mayFire) ==
    /\ mayFire
    /\ watchdog_counter' = watchdog_counter + 1
    /\ pc' = IF pc = "sleep" THEN "awake" ELSE pc
    /\ UNCHANGED <<cfgVars, device_count, constVars, counter_trigger, day_counter, started,
                   playVars>>

WDT_vect == ISR(TimerMayFire)

\* (mutant) the boundary is one wake late
BoundaryReached_Late(dc) == dc > DAY * 3

\* if (day_counter >= DAY*3)
BoundaryReached(dc) == dc >= DAY * 3

\* (mutant) day_counter is incremented whether or not started is set
DayCounterAfterWake_Always(isStarted, dc) == dc + 1

\* if (started) { day_counter++; }
DayCounterAfterWake(isStarted, dc) == IF isStarted THEN dc + 1 ELSE dc

\* (mutant) the tick tone is played in every mode
TickTone_AnyMode(fires, param) == IF ~fires THEN {"tick"} ELSE {}

\* else if (WATCHDOG_PARAM == TEST_WATCHDOG_PARAM) { play(568, 100); }
TickTone(fires, param) ==
    IF ~fires /\ param = TEST_WATCHDOG_PARAM THEN {"tick"} ELSE {}

\* the three notes after a decay step, if (WATCHDOG_PARAM == TEST_WATCHDOG_PARAM)
DecayCue(decays, param) ==
    IF decays /\ param = TEST_WATCHDOG_PARAM THEN {"cue"} ELSE {}

\* loop from the return of sleep_mode to the comparison of the counter, whose
\* four-byte read yields observed: the day counter, the decay step, then either
\* the branch that fires or the end of the iteration (sleep_mode again)
LoopBody(observed) ==
    /\ pc = "awake"
    /\ LET dc == DayCounterAfterWake(started, day_counter)
           decays == BoundaryReached(dc) /\ DecayGuard(device_count)
           fires == observed >= counter_trigger
       IN  /\ IF BoundaryReached(dc)
              THEN /\ day_counter' = 0
                   /\ IF DecayGuard(device_count)
                      THEN /\ MIN_COUNTER_TRIGGER' = DecayBound(MIN_COUNTER_TRIGGER, device_count)
                           /\ MAX_COUNTER_TRIGGER' = DecayBound(MAX_COUNTER_TRIGGER, device_count)
                           /\ device_count' = Int16(device_count - 1)
                      ELSE UNCHANGED <<MIN_COUNTER_TRIGGER, MAX_COUNTER_TRIGGER, device_count>>
              ELSE /\ day_counter' = dc
                   /\ UNCHANGED <<MIN_COUNTER_TRIGGER, MAX_COUNTER_TRIGGER, device_count>>
           /\ piezo' = DecayCue(decays, WATCHDOG_PARAM) \cup TickTone(fires, WATCHDOG_PARAM)
           /\ pc' = IF fires THEN "fire" ELSE "sleep"
    /\ UNCHANGED <<cfgVars, INITIAL_COUNTER_TRIGGER, WATCHDOG_PARAM, counter_trigger, started, x>>

\* one iteration with no interrupt during the read of watchdog_counter
LoopWake ==
    /\ LoopBody(watchdog_counter)
    /\ UNCHANGED watchdog_counter

\* one iteration with the interrupt running between the byte loads of the
\* four-byte watchdog_counter
TornWake(mayFire) ==
    /\ mayFire
    /\ \E observed \in TornReads(watchdog_counter) : LoopBody(observed)
    /\ watchdog_counter' = watchdog_counter + 1

LoopWakeTorn == TornWake(TimerMayFire)

\* (mutant) the firing branch does not reset the counter
FireBranch_NoReset(w) ==
    /\ pc = "fire"
    /\ watchdog_counter' = watchdog_counter
    /\ counter_trigger' \in RandomRange(MIN_COUNTER_TRIGGER, MAX_COUNTER_TRIGGER)
    /\ started' = TRUE
    /\ pc' = "annoy"
    /\ UNCHANGED <<cfgVars, device_count, constVars, day_counter, playVars>>

\* watchdog_counter = 0; newTriggerCounter(); started = true;
\* w is what the counter holds once the four byte stores are done
FireBranch(w) ==
    /\ pc = "fire"
    /\ watchdog_counter' = w
    /\ counter_trigger' \in RandomRange(MIN_COUNTER_TRIGGER, MAX_COUNTER_TRIGGER)
    /\ started' = TRUE
    /\ pc' = "annoy"
    /\ UNCHANGED <<cfgVars, device_count, constVars, day_counter, playVars>>

\* the firing branch with no interrupt during the reset
LoopFire == FireBranch(0)

\* the firing branch with the interrupt running between the byte stores of
\* the reset
TornFire(mayFire) ==
    /\ mayFire
    /\ \E w \in TornResets(watchdog_counter) : FireBranch(w)

LoopFireTorn == TornFire(TimerMayFire)

\* annoy() as a whole, whatever pattern it draws: the episode is played, loop
\* returns and is entered again: sleep_mode
AnnoyDone ==
    /\ pc = "annoy"
    /\ pc' = "sleep"
    /\ UNCHANGED <<cfgVars, device_count, constVars, runVars, playVars>>

(***************************************************************************)
(* annoy and annoy3 step by step                                           *)
(***************************************************************************)
\* entries of int periods[100]
PeriodsLen == 100

\* annoy with the pattern it drew: annoy0, annoy1 and annoy2 play fixed notes
\* and return; annoy3 first fills periods[0..99] with draws from its band and
\* enters the loop that plays them forward
Annoy(annoyance) ==
    /\ pc = "annoy"
    /\ IF annoyance < 3
       THEN pc' = "sleep" /\ x' = x
       ELSE pc' = "annoy3_forward" /\ x' = 0
    /\ UNCHANGED <<cfgVars, device_count, constVars, runVars, piezo>>

\* int const annoyance = random(0, 6); switch (annoyance)
AnnoyStart == \E annoyance \in RandomRange(0, 6) : Annoy(annoyance)

\* for (int x = 0; x < 100; ++x) { play(periods[x], 1); } followed by the
\* initialisation x = 100 of the loop that plays them in reverse
Annoy3Forward ==
    /\ pc = "annoy3_forward"
    /\ IF x < PeriodsLen
       THEN x' = x + 1 /\ pc' = pc
       ELSE x' = 100 /\ pc' = "annoy3_reverse"
    /\ UNCHANGED <<cfgVars, device_count, constVars, runVars, piezo>>

\* for (int x = 100; x >= 0; --x) { play(periods[x], 1); }, then annoy3,
\* annoy and loop return and loop is entered again: sleep_mode
Annoy3Reverse ==
    /\ pc = "annoy3_reverse"
    /\ IF x >= 0
       THEN x' = x - 1 /\ pc' = pc
       ELSE x' = 0 /\ pc' = "sleep"
    /\ UNCHANGED <<cfgVars, device_count, constVars, runVars, piezo>>

(***************************************************************************)
(* Specifications                                                          *)
(***************************************************************************)
\* the configuration stage alone, up to the return of readConfiguration
NextConfig ==
    \/ ActivationTap
    \/ ActivationTimeout
    \/ DaysTap(MaxTaps)
    \/ DaysTimeout
    \/ ConfirmDays
    \/ DevicesTap(MaxTaps)
    \/ DevicesTimeout
    \/ TestModeTap
    \/ TestModeTimeout
    \/ PostProcess

SpecConfig == Init /\ [][NextConfig]_vars

\* the whole program from power on
Next ==
    \/ ActivationTap
    \/ ActivationTimeout
    \/ DaysTap(MaxRunTaps)
    \/ DaysTimeout
    \/ ConfirmDays
    \/ DevicesTap(MaxRunTaps)
    \/ DevicesTimeout
    \/ TestModeTap
    \/ TestModeTimeout
    \/ PostProcess
    \/ SetupNewTrigger
    \/ SetupWatchdog
    \/ WDT_vect
    \/ LoopWake
    \/ LoopWakeTorn
    \/ LoopFire
    \/ LoopFireTorn
    \/ AnnoyDone

Spec == Init /\ [][Next]_vars

\* a device activated for production use with no day taps, followed from
\* power on through the initial delay to the end of its first episode
FirstWDT_vect == ISR(TimerUntilStarted)
FirstLoopWakeTorn == TornWake(TimerUntilStarted)
FirstLoopFireTorn == TornFire(TimerUntilStarted)

NextFirstEpisode ==
    \/ ActivationTap
    \/ DaysTimeout
    \/ ConfirmDays
    \/ DevicesTap(MaxFirstTaps)
    \/ DevicesTimeout
    \/ TestModeTimeout
    \/ PostProcess
    \/ SetupNewTrigger
    \/ SetupWatchdog
    \/ FirstWDT_vect
    \/ LoopWake
    \/ FirstLoopWakeTorn
    \/ LoopFire
    \/ FirstLoopFireTorn
    \/ AnnoyDone

SpecFirstEpisode == Init /\ [][NextFirstEpisode]_vars

\* the watchdog timer is enabled: no cap on the counter, which the firing
\* branch resets at most MaxLateTicks ticks past counter_trigger
TimerRuns ==
    /\ pc \in LoopPcs
    /\ pc # "sleep" => watchdog_counter < counter_trigger + MaxLateTicks

LiveWDT_vect == ISR(TimerRuns)
LiveLoopWakeTorn == TornWake(TimerRuns)
LiveLoopFireTorn == TornFire(TimerRuns)

\* a device left unactivated, or activated for test mode with no day taps and
\* no other devices, running for ever
NextLive ==
    \/ ActivationTap
    \/ ActivationTimeout
    \/ DaysTimeout
    \/ ConfirmDays
    \/ DevicesTimeout
    \/ TestModeTap
    \/ PostProcess
    \/ SetupNewTrigger
    \/ SetupWatchdog
    \/ LiveWDT_vect
    \/ LoopWake
    \/ LiveLoopWakeTorn
    \/ LoopFire
    \/ LiveLoopFireTorn
    \/ AnnoyDone

\* the watchdog oscillator keeps running, so a timer firing that stays
\* possible happens; the processor keeps executing, so each step of the main
\* program that stays possible is taken
SpecLive ==
    /\ Init
    /\ [][NextLive]_vars
    /\ WF_vars(LiveWDT_vect)
    /\ WF_vars(LoopWake)
    /\ WF_vars(LoopFire)
    /\ WF_vars(AnnoyDone)

\* the configuration stage with the level of the activation pin followed
\* through each tap: the operator taps and releases, or keeps the pin asserted
NextHeld ==
    \/ ActivationTap
    \/ ActivationTimeout
    \/ DaysTapHeld(MaxHeldTaps)
    \/ DaysReleased
    \/ DaysTimeout
    \/ ConfirmDays
    \/ DevicesTapHeld(MaxHeldTaps)
    \/ DevicesReleased
    \/ DevicesTimeout
    \/ TestModeTap
    \/ TestModeTimeout
    \/ PostProcess

\* millis() advances, so a window that stays open without a tap runs out, and
\* the processor executes the code between the stages; nothing is assumed of
\* the operator, who may tap, release or keep the pin asserted
SpecHeld ==
    /\ Init
    /\ [][NextHeld]_vars
    /\ WF_vars(ActivationTimeout)
    /\ WF_vars(DaysTimeout)
    /\ WF_vars(ConfirmDays)
    /\ WF_vars(DevicesTimeout)
    /\ WF_vars(TestModeTimeout)
    /\ WF_vars(PostProcess)

\* a device left unactivated, followed through annoy and annoy3 step by step
\* to the end of its first episode; timer firings inside the comparison or
\* the reset are followed in Spec and left out here
NextAnnoy ==
    \/ ActivationTimeout
    \/ SetupNewTrigger
    \/ SetupWatchdog
    \/ FirstWDT_vect
    \/ LoopWake
    \/ LoopFire
    \/ AnnoyStart
    \/ Annoy3Forward
    \/ Annoy3Reverse

SpecAnnoy == Init /\ [][NextAnnoy]_vars

(***************************************************************************)
(* Properties of the configuration stage (checked under SpecConfig)        *)
(***************************************************************************)
\* the base values the run selected: the test set after a test-mode tap,
\* the production set otherwise
BaseMin == IF testMode THEN TEST_MIN_COUNTER_TRIGGER ELSE PROD_MIN_COUNTER_TRIGGER
BaseMax == IF testMode THEN TEST_MAX_COUNTER_TRIGGER ELSE PROD_MAX_COUNTER_TRIGGER
BaseInitial ==
    IF testMode THEN TEST_INITIAL_COUNTER_TRIGGER ELSE PROD_INITIAL_COUNTER_TRIGGER
BaseWatchdog == IF testMode THEN TEST_WATCHDOG_PARAM ELSE PROD_WATCHDOG_PARAM

\* C1: when an activated readConfiguration returns after d taps in CountDays
\* and k taps in CountOtherDevices, device_count = k+1, the interval bounds
\* are the base bounds times k+1 and the initial delay is the base delay
\* plus d days, for every d and k.
C1_ConfigFromTaps ==
    (pc = "ConfigDone" /\ active) =>
        /\ device_count = deviceTaps + 1
        /\ MIN_COUNTER_TRIGGER = BaseMin * (deviceTaps + 1)
        /\ MAX_COUNTER_TRIGGER = BaseMax * (deviceTaps + 1)
        /\ INITIAL_COUNTER_TRIGGER = BaseInitial + dayTaps * DAY

\* C2 as stated: with no activation tap readConfiguration returns with
\* min = max = initial delay = 0 and the wake period code whose period is the
\* shortest of the codes 0..9.
C2_FastestWakePeriod ==
    (pc = "ConfigDone" /\ ~active) =>
        /\ MIN_COUNTER_TRIGGER = 0
        /\ MAX_COUNTER_TRIGGER = 0
        /\ INITIAL_COUNTER_TRIGGER = 0
        /\ \A c \in 0 .. 9 : WatchdogPeriodMs(WATCHDOG_PARAM) <= WatchdogPeriodMs(c)

\* C2 amended: with no activation tap readConfiguration returns with
\* min = max = initial delay = 0 and the test wake code 7, whose period of
\* 2 s is shorter than the production period but not the shortest of 0..9.
C2_SuperAnnoyingConfig ==
    (pc = "ConfigDone" /\ ~active) =>
        /\ MIN_COUNTER_TRIGGER = 0
        /\ MAX_COUNTER_TRIGGER = 0
        /\ INITIAL_COUNTER_TRIGGER = 0
        /\ WATCHDOG_PARAM = TEST_WATCHDOG_PARAM
        /\ WatchdogPeriodMs(WATCHDOG_PARAM) = 2000
        /\ WatchdogPeriodMs(WATCHDOG_PARAM) < WatchdogPeriodMs(PROD_WATCHDOG_PARAM)
        /\ \E c \in 0 .. 9 : WatchdogPeriodMs(c) < WatchdogPeriodMs(WATCHDOG_PARAM)

C2_Witness == pc = "ConfigDone" /\ ~active /\ WATCHDOG_PARAM = TEST_WATCHDOG_PARAM

\* C3: readActivationPinByte returns exactly the number of taps supplied, in
\* the CountDays stage and in the CountOtherDevices stage, also above 255.
C3_CountTapsExact ==
    /\ pc = "ConfirmDays" => days = dayTaps
    /\ pc = "TestModeQuery" => device_count = deviceTaps + 1

\* C10: a test-mode tap switches the wake code, both base bounds and the base
\* delay to their test values before post-processing and no tap leaves all
\* four at their production values; the returned configuration is built from
\* one set only; activate, 3 day taps, 2 device taps, no test tap gives wake
\* code 9, three devices and an initial delay of DAY + 3 * DAY.
C10_TestModeAllOrNothing ==
    /\ pc = "PostProcess" =>
          /\ WATCHDOG_PARAM = BaseWatchdog
          /\ MIN_COUNTER_TRIGGER = BaseMin
          /\ MAX_COUNTER_TRIGGER = BaseMax
          /\ INITIAL_COUNTER_TRIGGER = BaseInitial
    /\ (pc = "ConfigDone" /\ active) =>
          /\ WATCHDOG_PARAM = BaseWatchdog
          /\ MIN_COUNTER_TRIGGER = BaseMin * device_count
          /\ MAX_COUNTER_TRIGGER = BaseMax * device_count
          /\ INITIAL_COUNTER_TRIGGER = BaseInitial + DAY * days
    /\ (pc = "ConfigDone" /\ active /\ dayTaps = 3 /\ deviceTaps = 2 /\ ~testMode) =>
          /\ WATCHDOG_PARAM = 9
          /\ WatchdogPeriodMs(WATCHDOG_PARAM) = 8000
          /\ device_count = 3
          /\ MIN_COUNTER_TRIGGER = 37 * 3
          /\ MAX_COUNTER_TRIGGER = 60 * 3
          /\ INITIAL_COUNTER_TRIGGER = DAY + 3 * DAY

\* a test-mode tap after 3 day taps and 2 device taps, before post-processing
C10_Witness ==
    /\ pc = "PostProcess"
    /\ testMode
    /\ dayTaps = 3
    /\ deviceTaps = 2
    /\ WATCHDOG_PARAM = TEST_WATCHDOG_PARAM

(***************************************************************************)
(* Properties of setup and loop (checked under Spec)                       *)
(***************************************************************************)
\* C4: every draw of the trigger threshold, in setup before the initial
\* delay is added and after each firing in loop, yields a value between
\* MIN_COUNTER_TRIGGER and MAX_COUNTER_TRIGGER as they are at the draw.
C4_DrawWithinBounds ==
    [][ ((pc = "ConfigDone" /\ pc' = "SetupAddInitial") \/ (pc = "fire" /\ pc' = "annoy"))
        => /\ MIN_COUNTER_TRIGGER <= counter_trigger'
           /\ counter_trigger' <= MAX_COUNTER_TRIGGER ]_vars

C4_Witness ==
    /\ pc = "annoy"
    /\ watchdog_counter = 0
    /\ MIN_COUNTER_TRIGGER < MAX_COUNTER_TRIGGER
    /\ counter_trigger = MAX_COUNTER_TRIGGER - 1

\* C5 as stated: when annoy() returns in loop, watchdog_counter is exactly 0,
\* whatever timer firings occurred since the comparison.
C5_ZeroAfterEpisode ==
    [][ (pc = "annoy" /\ pc' = "sleep") => watchdog_counter' = 0 ]_vars

\* C5 amended: the firing branch leaves watchdog_counter at exactly 0 when the
\* episode starts, unless a timer firing interrupts the byte stores of the
\* reset itself and leaves what it added; until annoy() returns only the
\* interrupt handler changes the counter, by one per timer firing, so at the
\* return it is 0 only when no timer firing occurred since the reset began.
C5_ZeroAtEpisodeStart ==
    [][ /\ (pc = "fire" /\ pc' = "annoy") =>
              \/ watchdog_counter' = 0
              \/ TimerMayFire /\ watchdog_counter' \in TornResets(watchdog_counter)
        /\ (pc = "annoy" /\ pc' = "annoy") => watchdog_counter' = watchdog_counter + 1
        /\ (pc = "annoy" /\ pc' = "sleep") => watchdog_counter' = watchdog_counter ]_vars

C5_Witness == pc = "annoy" /\ started /\ watchdog_counter = 1

\* the wake being processed reaches a multi-day boundary
BoundaryDue == pc = "awake" /\ started /\ day_counter + 1 >= DAY * 3

C7_NoDecayAtOne ==
    [][ (pc \in LoopPcs /\ device_count = 1)
        => UNCHANGED <<MIN_COUNTER_TRIGGER, MAX_COUNTER_TRIGGER, device_count>> ]_vars

\* a never activated device has just passed a multi-day boundary
C7_Witness ==
    /\ pc = "fire"
    /\ ~active
    /\ started
    /\ day_counter = 0
    /\ device_count = 1
    /\ MIN_COUNTER_TRIGGER = 0
    /\ MAX_COUNTER_TRIGGER = 0

C9_SuperAnnoyingFiresEveryWake ==
    [][ (~active /\ pc = "awake" /\ pc' # "awake") => pc' = "fire" ]_vars

\* a not activated device fires on a wake after its first episode
C9_Witness == ~active /\ pc = "fire" /\ started /\ day_counter = 2

(***************************************************************************)
(* Properties of the shared counter (checked under SpecFirstEpisode)       *)
(***************************************************************************)
\* the variables other than pc and watchdog_counter
restVars ==
    <<cfgVars, device_count, constVars, counter_trigger, day_counter, started, playVars>>

\* C11: every change of watchdog_counter is an increment by exactly 1 made by
\* the interrupt handler, which writes no other variable, or a reset to 0
\* made by loop when it fires an episode; loop writes no other value and the
\* counter is never decreased to a non-zero value.  (A step that holds a timer
\* firing inside the reset shows both writes at once: 0, or 0 and then 1.)
C11_CounterWrites ==
    [][ /\ watchdog_counter' # watchdog_counter =>
              IF pc = "fire" /\ pc' = "annoy"
              THEN watchdog_counter' \in {0, 1}
              ELSE watchdog_counter' = watchdog_counter + 1
        /\ (watchdog_counter' # watchdog_counter /\ (pc' = pc \/ pc = "sleep")) =>
              UNCHANGED restVars ]_vars

\* C13: the first episode never fires on a wake at which fewer than
\* INITIAL_COUNTER_TRIGGER + MIN_COUNTER_TRIGGER timer ticks have been counted
\* since the timer was started, and every threshold drawn after a firing is
\* within the interval bounds alone, with no initial delay added.
C13_InitialDelayOnce ==
    [][ /\ (pc = "awake" /\ pc' = "fire" /\ ~started) =>
              watchdog_counter' >= INITIAL_COUNTER_TRIGGER + MIN_COUNTER_TRIGGER
        /\ (pc = "fire" /\ pc' = "annoy") =>
              /\ counter_trigger' >= MIN_COUNTER_TRIGGER
              /\ counter_trigger' <= MAX_COUNTER_TRIGGER ]_vars

C14_StartedGatesDayCounter ==
    [][ /\ started => started'
        /\ (pc = "fire" /\ pc' = "annoy") => started'
        /\ (~started /\ started') => (pc = "fire" /\ pc' = "annoy")
        /\ ~started' => day_counter' = 0
        /\ (~started /\ pc \in LoopPcs) =>
              UNCHANGED <<MIN_COUNTER_TRIGGER, MAX_COUNTER_TRIGGER, device_count>>
        /\ (started /\ pc = "awake" /\ pc' # "awake") =>
              day_counter' = IF day_counter + 1 >= DAY * 3 THEN 0 ELSE day_counter + 1
        /\ pc' = pc => day_counter' = day_counter ]_vars

\* the first wake after the first episode of an activated device
C14_Witness == pc = "sleep" /\ active /\ started /\ day_counter = 1

C19_BoundsProportional ==
    /\ (active /\ pc \in ({"ConfigDone", "SetupAddInitial"} \cup LoopPcs)) =>
          /\ MIN_COUNTER_TRIGGER = BaseMin * device_count
          /\ MAX_COUNTER_TRIGGER = BaseMax * device_count
          /\ MIN_COUNTER_TRIGGER % device_count = 0
          /\ MAX_COUNTER_TRIGGER % device_count = 0
          /\ device_count = 1 =>
                MIN_COUNTER_TRIGGER = BaseMin /\ MAX_COUNTER_TRIGGER = BaseMax
    /\ (active /\ pc = "ConfigDone") =>
          \A n \in 2 .. MaxTaps :
              /\ DecayBound(BaseMin * n, n) = BaseMin * (n - 1)
              /\ DecayBound(BaseMax * n, n) = BaseMax * (n - 1)

\* a device configured with one other device, five wakes after its decay step
C19_Witness ==
    /\ pc \in LoopPcs
    /\ active
    /\ deviceTaps = 1
    /\ device_count = 1
    /\ day_counter = 5
    /\ MIN_COUNTER_TRIGGER = TEST_MIN_COUNTER_TRIGGER

\* C20: in production mode (activated, no test-mode tap, wake code 9) loop
\* plays nothing outside annoy: no tick tone on a wake that does not fire and
\* no cue after a decay step; the tick tone and the decay cue are played only
\* when WATCHDOG_PARAM is the test wake code.
C20_SilentInProduction ==
    /\ (pc \in LoopPcs /\ active /\ ~testMode) =>
          /\ WATCHDOG_PARAM = PROD_WATCHDOG_PARAM
          /\ piezo = {}
          /\ \A decays \in BOOLEAN, fires \in BOOLEAN :
                DecayCue(decays, WATCHDOG_PARAM) \cup TickTone(fires, WATCHDOG_PARAM) = {}
    /\ piezo # {} => WATCHDOG_PARAM = TEST_WATCHDOG_PARAM

\* a production device asleep again after three wakes that did not fire
C20_Witness ==
    /\ pc = "sleep"
    /\ active
    /\ ~testMode
    /\ WATCHDOG_PARAM = PROD_WATCHDOG_PARAM
    /\ watchdog_counter = 3
    /\ piezo = {}

(***************************************************************************)
(* Order of the configuration stages (checked under SpecConfig)            *)
(***************************************************************************)
\* position of a stage of readConfiguration in the order of the code
StageRank(p) ==
    CASE p = "AwaitActivation" -> 0
      [] p = "CountDays" -> 1
      [] p = "ConfirmDays" -> 2
      [] p = "CountOtherDevices" -> 3
      [] p = "TestModeQuery" -> 4
      [] p = "PostProcess" -> 5
      [] OTHER -> 6

\* C18: the stages run in the order AwaitActivation, CountDays,
\* CountOtherDevices, TestModeQuery, each at most once; CountDays and the
\* later stages are entered only after an activation tap; without it
\* readConfiguration returns having read no further tap, device_count = 1.
C18_StagesInOrder ==
    [][ /\ pc' # pc =>
              IF pc = "AwaitActivation" /\ ~active'
              THEN pc' = "ConfigDone"
              ELSE StageRank(pc') = StageRank(pc) + 1
        /\ StageRank(pc') \in 1 .. 5 => active'
        /\ (pc' = "ConfigDone" /\ ~active') =>
              /\ device_count' = 1
              /\ dayTaps' = 0
              /\ deviceTaps' = 0
              /\ count' = 0 ]_vars

\* TestModeQuery is reached after taps in both counting stages
C18_Witness == pc = "TestModeQuery" /\ active /\ dayTaps = 2 /\ deviceTaps = 2

(***************************************************************************)
(* Termination of the configuration stage (checked under SpecHeld)         *)
(***************************************************************************)
\* C16: readConfiguration always returns: every stage ends on a tap or on
\* its timeout and every wait of the tap reader is bounded, whatever the
\* operator does with the pin, keeping it asserted after a tap included.
C16_ConfigurationTerminates == <>(pc = "ConfigDone")

(***************************************************************************)
(* The randomized glide (checked under SpecAnnoy)                          *)
(***************************************************************************)
\* C17: annoy3 plays the 100 periods it drew in order and then the same 100
\* in reverse order: every read of periods, in the forward loop and in the
\* reverse loop, uses an index within 0..99.
C17_ReadsWithinBuffer ==
    /\ (pc = "annoy3_forward" /\ x < PeriodsLen) => x \in 0 .. (PeriodsLen - 1)
    /\ (pc = "annoy3_reverse" /\ x >= 0) => x \in 0 .. (PeriodsLen - 1)

====
